---- MODULE Spec2Model ----
(***************************************************************************)
(* A model of progrss (src/src/main.rs): one run of main over the          *)
(* candidate processes -- the initial scan of every selected process, the  *)
(* optional single wait, the resample pass and the reports.                *)
(*                                                                         *)
(* The process-information filesystem is the environment: what each read   *)
(* returns is chosen nondeterministically at the moment the code reads.    *)
(* Time is the monotonic clock read by Instant::now, counted in whole      *)
(* seconds: a scan or a resample pass takes less than a tick, the sleep    *)
(* takes its duration.  A u64 is modelled with U64Bits bits.  Link targets *)
(* are valid UTF-8, so that Path::to_str gives Some.  A run tracks at most *)
(* MaxTracked descriptors over all its processes.                          *)
(***************************************************************************)
EXTENDS Integers, Sequences, FiniteSets, TLC

\* ---------------------------------------------------------------- bounds
MaxTracked == 2
U64Bits == 16
ClassifyLen == 3

Modulus == 2 ^ U64Bits
U64_MAX == Modulus - 1

\* The candidate process ids, as cli.pid or the listing of /proc gives them.
Candidates == << 1, 2 >>
\* The values the reads of a run return: offsets, sizes, flags.
Offsets == {0, 2}
Sizes == {0, 1}
FlagValues == {0, 1, 2, 3}
\* The delays --wait-delay gives, in seconds; --wait alone waits 1 second.
Delays == {0}

None == << >>
Some(v) == << v >>

\* ---------------------------------------------------------------- state
VARIABLES
    cli,             \* the parsed command line: wait, wait_delay
    overflow_checks, \* the build: Some(TRUE) when u64 arithmetic panics on overflow,
                     \* None as long as no overflow has shown which build runs
    procs,           \* the candidate process ids, in discovery order
    pc,              \* the phase main is in: scan, wait, update, print, done
    idx,             \* the position of the running loop of main
    filtered_procs,  \* the selected processes, each with its tracked descriptors
    now,             \* the monotonic clock
    out,             \* the reports printed so far
    panic,           \* where the run aborted, or "none"
    events,          \* history: the phases of main as they happened
    initial,         \* history: the tracked descriptors as the initial scan left them
    reread,          \* history: per resampled process, the ids re-read with success
    probe            \* the argument and result of a function applied on its own

vars == << cli, overflow_checks, procs, pc, idx, filtered_procs, now, out,
           panic, events, initial, reread, probe >>

\* ---------------------------------------------------------------- FDFlags
O_ACCMODE == 3

\* flags & O_ACCMODE keeps the low two bits.
FDFlagsFrom(flags) ==
    LET m == flags % (O_ACCMODE + 1)
    IN  IF m = 0 THEN "ReadOnly"
        ELSE IF m = 1 THEN "WriteOnly"
        ELSE IF m = 2 THEN "ReadWrite"
        ELSE "ReadOnly"

Modes == {"ReadOnly", "WriteOnly", "ReadWrite"}

\* ---------------------------------------------------------------- reads
\* What the three reads of FD::new and the one read of FD::update return.
\* link: fs::read_link(fd), "err" or "ok"; info: the info record, unreadable,
\* without a pos line, without a flags line, with a value that is no decimal
\* u64, or well-formed; meta: fs::metadata(fd), "err" or "ok".
InfoOutcomes == {"err", "nopos", "noflags", "malformed", "ok"}

Read(link, info, pos, flags, meta, size) ==
    [link |-> link, info |-> info, pos |-> pos, flags |-> flags,
     meta |-> meta, size |-> size]

\* The outcomes of the reads of FD::new, the fields no code path looks at
\* being held at a fixed value.
NewReads ==
    { Read("err", "err", 0, 0, "err", 0) }
    \cup { Read("ok", i, 0, 0, "err", 0) : i \in InfoOutcomes \ {"ok"} }
    \cup { Read("ok", "ok", 0, 0, "err", 0) }
    \cup { Read("ok", "ok", p, f, "ok", s) :
             p \in Offsets, f \in FlagValues, s \in Sizes }

\* The outcomes of the re-read of FD::update, which drops the flags it reads
\* (SpecResample varies them).
UpdateReads ==
    { Read("ok", i, 0, 0, "ok", 0) : i \in InfoOutcomes \ {"ok"} }
    \cup { Read("ok", "ok", p, 0, "ok", 0) : p \in Offsets }

\* FD::read_fdinfo: "Err", "Panic" (parse::<u64>().unwrap()) or "Ok".
ReadFdinfo(r) ==
    IF r.info \in {"err", "nopos", "noflags"} THEN "Err"
    ELSE IF r.info = "malformed" THEN "Panic"
    ELSE "Ok"

\* The path of a descriptor's info record: proc/fdinfo/id.
FdInfoPath(pid, id) == << pid, "fdinfo", id >>
\* The target a descriptor's link resolves to.
LinkTarget(pid, id) == << pid, "fd", id >>

\* ---------------------------------------------------------------- FD::new
\* "None", "Some", or the place of the unwrap that panics.
FDNewOutcome(r) ==
    IF r.link = "err" THEN "None"
    ELSE IF ReadFdinfo(r) = "Err" THEN "None"
    ELSE IF ReadFdinfo(r) = "Panic" THEN "FD::read_fdinfo:parse"
    ELSE IF r.meta = "err" THEN "FD::new:metadata"
    ELSE "Some"

\* FD::new, were it to start the throughput at zero.
FDNew_WithSpeed(pid, id, r, t) ==
    [_id |-> id,
     fd_info |-> FdInfoPath(pid, id),
     name |-> Some(LinkTarget(pid, id)),
     size |-> r.size,
     pos |-> r.pos,
     flags |-> FDFlagsFrom(r.flags),
     speed |-> Some(0),
     last_scan |-> t]

\* The snapshot FD::new returns when its reads succeed.
FDNew(pid, id, r, t) ==
    [_id |-> id,
     fd_info |-> FdInfoPath(pid, id),
     name |-> Some(LinkTarget(pid, id)),
     size |-> r.size,
     pos |-> r.pos,
     flags |-> FDFlagsFrom(r.flags),
     speed |-> None,
     last_scan |-> t]

\* ---------------------------------------------------------------- FD::update
\* pos - self.pos on u64: wraps in a build without overflow checks.
WrappingSub(a, b) == (a - b + Modulus) % Modulus

\* (diff as f64 / elapsed.as_secs_f64()) as u64: the float division, then the
\* saturating cast (NaN to 0, +infinity and anything above the range to u64::MAX).
SpeedOf(diff, elapsed) ==
    IF elapsed = 0
    THEN IF diff = 0 THEN 0 ELSE U64_MAX
    ELSE LET q == diff \div elapsed
         IN  IF q > U64_MAX THEN U64_MAX ELSE q

\* What FD::update returns, or the place where it panics: the parse of the
\* re-read, or pos - self.pos in a build that checks overflow.
FDUpdateOutcome(fd, r, checks) ==
    IF ReadFdinfo(r) = "Err" THEN "false"
    ELSE IF ReadFdinfo(r) = "Panic" THEN "FD::read_fdinfo:parse"
    ELSE IF r.pos < fd.pos /\ checks THEN "FD::update:overflow"
    ELSE "true"

\* FD::update, were it to trust the flags of the re-read.
FDUpdate_TakesFlags(fd, r, t) ==
    [fd EXCEPT !.speed = Some(SpeedOf(WrappingSub(r.pos, fd.pos), t - fd.last_scan)),
               !.pos = r.pos,
               !.flags = FDFlagsFrom(r.flags),
               !.last_scan = t]

\* The descriptor after an update that returns true.
FDUpdate(fd, r, t) ==
    [fd EXCEPT !.speed = Some(SpeedOf(WrappingSub(r.pos, fd.pos), t - fd.last_scan)),
               !.pos = r.pos,
               !.last_scan = t]

\* ---------------------------------------------------------------- Proc
\* The first position of outs that is a panic, or 0.
RECURSIVE FirstPanic(_, _)
FirstPanic(outs, k) ==
    IF k > Len(outs) THEN 0
    ELSE IF outs[k] \notin {"None", "Some", "true", "false"} THEN k
    ELSE FirstPanic(outs, k + 1)

\* Proc::get_file_descriptors: the snapshots of the ids FD::new accepts, in
\* the order read_dir lists them.
GetFileDescriptors(pid, listing, rd, t) ==
    LET kept == SelectSeq(listing, LAMBDA id : FDNewOutcome(rd[id]) = "Some")
    IN  [k \in 1 .. Len(kept) |-> FDNew(pid, kept[k], rd[kept[k]], t)]

\* retain_mut, were it to keep the descriptors whose update returned false.
RetainMut_KeepsFailed(fds, rd, t, checks) ==
    [k \in 1 .. Len(fds) |->
        IF FDUpdateOutcome(fds[k], rd[fds[k]._id], checks) = "true"
        THEN FDUpdate(fds[k], rd[fds[k]._id], t)
        ELSE fds[k]]

\* Vec::retain_mut(|x| x.update()): the updated descriptors whose update
\* returned true, in their order.
RetainMut(fds, rd, t, checks) ==
    LET kept == SelectSeq(fds, LAMBDA fd : FDUpdateOutcome(fd, rd[fd._id], checks) = "true")
    IN  [k \in 1 .. Len(kept) |-> FDUpdate(kept[k], rd[kept[k]._id], t)]

\* max_by_key, were the fold to keep the earlier element when the keys are equal.
RECURSIVE MaxByKey_FirstMax(_, _, _, _)
MaxByKey_FirstMax(fds, flag_type, k, best) ==
    IF k > Len(fds) THEN best
    ELSE IF fds[k].flags # flag_type THEN MaxByKey_FirstMax(fds, flag_type, k + 1, best)
    ELSE IF best = 0 \/ fds[k].size > fds[best].size
         THEN MaxByKey_FirstMax(fds, flag_type, k + 1, k)
         ELSE MaxByKey_FirstMax(fds, flag_type, k + 1, best)

\* Iterator::max_by_key over the positions of fds that pass the filter: the
\* fold keeps the later element when the keys are equal.  0 when none passes.
RECURSIVE MaxByKey(_, _, _, _)
MaxByKey(fds, flag_type, k, best) ==
    IF k > Len(fds) THEN best
    ELSE IF fds[k].flags # flag_type THEN MaxByKey(fds, flag_type, k + 1, best)
    ELSE IF best = 0 \/ fds[k].size >= fds[best].size
         THEN MaxByKey(fds, flag_type, k + 1, k)
         ELSE MaxByKey(fds, flag_type, k + 1, best)

\* Proc::find_biggest_fd: the position of the chosen descriptor, 0 for None.
FindBiggestFd(fds, flag_type) == MaxByKey(fds, flag_type, 1, 0)

\* ---------------------------------------------------------------- main
\* The test of line 298, were it to look at the wait flag alone.
WaitRequested_FlagOnly == cli.wait

\* cli.wait || cli.wait_delay.is_some()
WaitRequested == cli.wait \/ cli.wait_delay # None

\* The seconds to sleep: the delay given, 1.0 by default.
Duration == IF cli.wait_delay # None THEN cli.wait_delay[1] ELSE 1

\* What read_dir of a process's fd directory can list: the ids of its open
\* descriptors, lowest first.  An id is only a key, so the n open descriptors
\* are numbered from 0 (SpecClassify takes the tracked list in any order).
Listings == { [k \in 1 .. n |-> k - 1] : n \in 0 .. MaxTracked }

Range(s) == { s[k] : k \in 1 .. Len(s) }

RECURSIVE SumLen(_, _)
SumLen(ps, k) == IF k > Len(ps) THEN 0 ELSE Len(ps[k].fd) + SumLen(ps, k + 1)

\* The descriptors the initial scans have kept so far.
Tracked == SumLen(initial, 1)

Init ==
    /\ cli \in [wait : BOOLEAN, wait_delay : {None} \cup { Some(d) : d \in Delays }]
    /\ overflow_checks = None
    /\ procs = Candidates
    /\ pc = "scan"
    /\ idx = 1
    /\ filtered_procs = << >>
    /\ now = 0
    /\ out = << >>
    /\ panic = "none"
    /\ events = << >>
    /\ initial = << >>
    /\ reread = << >>
    /\ probe = << >>

Running == panic = "none"

\* Where main stands when its loop over n selected processes is to take its
\* k-th turn: a loop that is over falls through to what follows it, and main
\* returns Ok(()) after the last report.
PrintFrom(k, n) == IF k <= n THEN << "print", k >> ELSE << "done", k >>

UpdateFrom(k, n) == IF k <= n THEN << "update", k >> ELSE PrintFrom(1, n)

ScanFrom(k, n) ==
    IF k <= Len(procs) THEN << "scan", k >>
    ELSE IF WaitRequested THEN << "wait", k >>
    ELSE PrintFrom(1, n)

\* get_proc_exe returns None, or a name that is not watched: the candidate
\* is filtered out.
SkipProc ==
    /\ Running /\ pc = "scan" /\ idx <= Len(procs)
    /\ pc' = ScanFrom(idx + 1, Len(filtered_procs))[1]
    /\ idx' = ScanFrom(idx + 1, Len(filtered_procs))[2]
    /\ UNCHANGED << cli, overflow_checks, procs, filtered_procs, now, out,
                    panic, events, initial, reread, probe >>

\* Proc::new of a watched candidate whose fd directory cannot be read:
\* fs::read_dir(fd_dir).unwrap().
ScanProcNoDir ==
    /\ Running /\ pc = "scan" /\ idx <= Len(procs)
    /\ panic' = "Proc::get_file_descriptors:read_dir"
    /\ UNCHANGED << cli, overflow_checks, procs, pc, idx, filtered_procs, now,
                    out, events, initial, reread, probe >>

\* Proc::new of a watched candidate: the initial scan of its descriptors.
ScanProc ==
    /\ Running /\ pc = "scan" /\ idx <= Len(procs)
    /\ \E listing \in { l \in Listings : Tracked + Len(l) <= MaxTracked } :
       \E rd \in [Range(listing) -> NewReads] :
          LET pid == procs[idx]
              outs == [k \in 1 .. Len(listing) |-> FDNewOutcome(rd[listing[k]])]
              bad == FirstPanic(outs, 1)
              p == [pid |-> pid, fd |-> GetFileDescriptors(pid, listing, rd, now)]
          IN  IF bad # 0
              THEN /\ panic' = outs[bad]
                   /\ UNCHANGED << pc, idx, filtered_procs, events, initial >>
              ELSE /\ panic' = panic
                   /\ pc' = ScanFrom(idx + 1, Len(filtered_procs) + 1)[1]
                   /\ idx' = ScanFrom(idx + 1, Len(filtered_procs) + 1)[2]
                   /\ filtered_procs' = Append(filtered_procs, p)
                   /\ initial' = Append(initial, p)
                   /\ events' = Append(events, << "scan", pid >>)
    /\ UNCHANGED << cli, overflow_checks, procs, now, out, reread, probe >>

\* sleep(Duration::from_secs_f64(duration)): at least the duration passes.
Sleep ==
    /\ Running /\ pc = "wait"
    /\ now' = now + Duration
    /\ pc' = UpdateFrom(1, Len(filtered_procs))[1]
    /\ idx' = UpdateFrom(1, Len(filtered_procs))[2]
    /\ events' = Append(events, << "wait" >>)
    /\ UNCHANGED << cli, overflow_checks, procs, filtered_procs, out, panic,
                    initial, reread, probe >>

\* The builds the run can still be: both until an overflow has shown which.
Builds == IF overflow_checks = None THEN BOOLEAN ELSE { overflow_checks[1] }

\* Some re-read of the pass reports an offset below the stored one: only then
\* does the build matter to the pass.
Backward(fds, rd) ==
    \E k \in 1 .. Len(fds) :
        ReadFdinfo(rd[fds[k]._id]) = "Ok" /\ rd[fds[k]._id].pos < fds[k].pos

\* p.update() of the next selected process.
UpdateProc ==
    /\ Running /\ pc = "update" /\ idx <= Len(filtered_procs)
    /\ LET p == filtered_procs[idx]
           ids == { p.fd[k]._id : k \in 1 .. Len(p.fd) }
       IN  \E rd \in [ids -> UpdateReads] :
           \E checks \in IF Backward(p.fd, rd) THEN Builds ELSE { FALSE } :
              LET outs == [k \in 1 .. Len(p.fd) |->
                             FDUpdateOutcome(p.fd[k], rd[p.fd[k]._id], checks)]
                  bad == FirstPanic(outs, 1)
                  last == IF bad # 0 THEN bad ELSE Len(p.fd)
                  overflowed == \E k \in 1 .. last :
                                   /\ ReadFdinfo(rd[p.fd[k]._id]) = "Ok"
                                   /\ rd[p.fd[k]._id].pos < p.fd[k].pos
              IN  /\ overflow_checks' = IF overflowed THEN Some(checks)
                                                      ELSE overflow_checks
                  /\ IF bad # 0
                     THEN /\ panic' = outs[bad]
                          /\ UNCHANGED << pc, idx, filtered_procs, events, reread >>
                     ELSE /\ panic' = panic
                          /\ pc' = UpdateFrom(idx + 1, Len(filtered_procs))[1]
                          /\ idx' = UpdateFrom(idx + 1, Len(filtered_procs))[2]
                          /\ filtered_procs' =
                               [filtered_procs EXCEPT ![idx].fd =
                                   RetainMut(p.fd, rd, now, checks)]
                          /\ events' = Append(events, << "update", p.pid >>)
                          /\ reread' = Append(reread,
                                           { id \in ids : ReadFdinfo(rd[id]) = "Ok" })
    /\ UNCHANGED << cli, procs, now, out, initial, probe >>

\* The percentage Proc::print shows, progress() * 100 to two decimals, in
\* hundredths of a percent.
Percent(fd) == (2 * fd.pos * 10000 + fd.size) \div (2 * fd.size)

\* p.print() of the next selected process.
PrintProc ==
    /\ Running /\ pc = "print" /\ idx <= Len(filtered_procs)
    /\ LET p == filtered_procs[idx]
           fd_read == FindBiggestFd(p.fd, "ReadOnly")
           fd_write == FindBiggestFd(p.fd, "WriteOnly")
       IN  IF fd_read = 0
           THEN /\ panic' = "Proc::print:fd_read"
                /\ UNCHANGED << pc, idx, out, events >>
           ELSE /\ panic' = panic
                /\ pc' = PrintFrom(idx + 1, Len(filtered_procs))[1]
                /\ idx' = PrintFrom(idx + 1, Len(filtered_procs))[2]
                /\ events' = Append(events, << "print", p.pid >>)
                /\ out' = Append(out,
                     [pid |-> p.pid,
                      source |-> p.fd[fd_read].name[1],
                      destination |-> IF fd_write # 0
                                      THEN p.fd[fd_write].name[1] ELSE << >>,
                      progress |-> IF p.fd[fd_read].size > 0
                                   THEN Some(Percent(p.fd[fd_read])) ELSE None,
                      pos |-> p.fd[fd_read].pos,
                      size |-> p.fd[fd_read].size,
                      speed |-> IF p.fd[fd_read].size > 0
                                THEN p.fd[fd_read].speed ELSE None])
    /\ UNCHANGED << cli, overflow_checks, procs, filtered_procs, now,
                    initial, reread, probe >>

Next ==
    \/ SkipProc
    \/ ScanProcNoDir
    \/ ScanProc
    \/ Sleep
    \/ UpdateProc
    \/ PrintProc

Spec == Init /\ [][Next]_vars

\* ---------------------------------------------------------------- the classifier on its own
\* Proc::find_biggest_fd applied to any descriptor list and any mode.
ClassifySizes == {0, 100, 200}

ClassifyFDs ==
    { FDNew(1, 0, Read("ok", "ok", 0, f, "ok", s), 0) : f \in 0 .. 2, s \in ClassifySizes }

RECURSIVE SeqsUpTo(_, _)
SeqsUpTo(S, n) ==
    IF n = 0 THEN { << >> }
    ELSE SeqsUpTo(S, n - 1)
         \cup { Append(q, x) : q \in { y \in SeqsUpTo(S, n - 1) : Len(y) = n - 1 }, x \in S }

\* The list as the scan would number it: the k-th descriptor has id k - 1.
Numbered(q) == [k \in 1 .. Len(q) |-> [q[k] EXCEPT !._id = k - 1,
                                                  !.fd_info = FdInfoPath(1, k - 1),
                                                  !.name = Some(LinkTarget(1, k - 1))]]

Quiet ==
    /\ cli = [wait |-> FALSE, wait_delay |-> None]
    /\ procs = << >>
    /\ idx = 1
    /\ filtered_procs = << >>
    /\ now = 0
    /\ out = << >>
    /\ panic = "none"
    /\ events = << >>
    /\ initial = << >>
    /\ reread = << >>

InitClassify ==
    /\ Quiet
    /\ overflow_checks = None
    /\ pc = "classify"
    /\ probe \in { [fds |-> Numbered(q), flag_type |-> "ReadOnly", result |-> None] :
                    q \in SeqsUpTo(ClassifyFDs, ClassifyLen) }

Classify ==
    /\ pc = "classify" /\ probe.result = None
    /\ \E flag_type \in Modes :
          probe' = [probe EXCEPT !.flag_type = flag_type,
                                 !.result = Some(FindBiggestFd(probe.fds, flag_type))]
    /\ UNCHANGED << cli, overflow_checks, procs, pc, idx, filtered_procs, now,
                    out, panic, events, initial, reread >>

NextClassify == Classify

SpecClassify == InitClassify /\ [][NextClassify]_vars

\* ---------------------------------------------------------------- the resample on its own
\* FD::update applied to any snapshot, any re-read and any elapsed time.
ProbeOffsets == {0, 100, 5120}
ProbeSizes == {0, 100, 200}
ProbeElapsed == {0, 1, 2}
ProbeFlags == {0, 1, 2, 3, 9, 32769}

ProbeFDs ==
    { FDNew(1, 0, Read("ok", "ok", p, f, "ok", s), 0) :
        p \in ProbeOffsets, f \in ProbeFlags, s \in ProbeSizes }

\* The re-read, and the size the backing file has by then.
ProbeReads ==
    { Read("ok", i, 0, 0, "ok", 0) : i \in InfoOutcomes \ {"ok"} }
    \cup { Read("ok", "ok", p, f, "ok", s) :
             p \in ProbeOffsets, f \in ProbeFlags, s \in ProbeSizes }

InitResample ==
    /\ Quiet
    /\ overflow_checks \in { Some(TRUE), Some(FALSE) }
    /\ pc = "resample"
    /\ probe \in { [fd |-> fd, r |-> r, t |-> t, ret |-> None, result |-> None] :
                    fd \in ProbeFDs, r \in ProbeReads, t \in ProbeElapsed }

Resample ==
    /\ pc = "resample" /\ probe.ret = None
    /\ LET ret == FDUpdateOutcome(probe.fd, probe.r, overflow_checks[1])
       IN  probe' = [probe EXCEPT !.ret = Some(ret),
                                  !.result = IF ret = "true"
                                             THEN Some(FDUpdate(probe.fd, probe.r, probe.t))
                                             ELSE None]
    /\ UNCHANGED << cli, overflow_checks, procs, pc, idx, filtered_procs, now,
                    out, panic, events, initial, reread >>

NextResample == Resample

SpecResample == InitResample /\ [][NextResample]_vars

\* ---------------------------------------------------------------- properties
Ids(fds) == [k \in 1 .. Len(fds) |-> fds[k]._id]

\* The snapshot of descriptor id as the initial scan of process k left it.
InitialFd(k, id) == CHOOSE g \in Range(initial[k].fd) : g._id = id

\* Process k has been resampled.
Resampled(k) == k <= Len(reread)

\* C1: after the resample pass of a process its tracked descriptors are
\* exactly those of the initial scan whose re-read succeeded, in their
\* order; a process not yet resampled tracks what its initial scan kept; no
\* descriptor is added after the initial scan.
C1_ResampleKeepsExactlyTheReread ==
    /\ Len(initial) = Len(filtered_procs)
    /\ \A k \in 1 .. Len(filtered_procs) :
          /\ filtered_procs[k].pid = initial[k].pid
          /\ IF Resampled(k)
             THEN Ids(filtered_procs[k].fd)
                    = SelectSeq(Ids(initial[k].fd), LAMBDA id : id \in reread[k])
             ELSE filtered_procs[k] = initial[k]

\* A resample pass evicted one descriptor of a process and kept another.
C1_Witness ==
    \E k \in 1 .. Len(filtered_procs) :
        /\ Resampled(k)
        /\ Len(initial[k].fd) = 2
        /\ Len(filtered_procs[k].fd) = 1

\* C2: reporting a selected process that tracks no ReadOnly descriptor does
\* not abort the run.
C2_NoSourceDoesNotAbort == panic # "Proc::print:fd_read"

\* C3: FD::new never crashes: during the initial scan no read of a
\* descriptor aborts the run, whatever the three reads return.
C3_SnapshotNeverCrashes ==
    pc = "scan" => panic \notin {"FD::new:metadata", "FD::read_fdinfo:parse"}

\* C4: the classifier returns none iff no descriptor has the requested mode,
\* and otherwise the last, in enumeration order, of the descriptors of that
\* mode whose size is the maximum among them.
C4_ClassifierPicksLastMaximum ==
    (pc = "classify" /\ probe.result # None) =>
        LET fds == probe.fds
            i == probe.result[1]
            OfMode == { j \in 1 .. Len(fds) : fds[j].flags = probe.flag_type }
        IN  /\ i = 0 <=> OfMode = {}
            /\ i # 0 =>
                  /\ i \in OfMode
                  /\ \A j \in OfMode : fds[j].size <= fds[i].size
                  /\ \A j \in OfMode : fds[j].size = fds[i].size => j <= i

\* The classifier chose between descriptors of the same mode and size.
C4_Witness ==
    /\ pc = "classify" /\ probe.result # None /\ probe.result[1] # 0
    /\ \E j \in 1 .. Len(probe.fds) :
          /\ j < probe.result[1]
          /\ probe.fds[j].flags = probe.flag_type
          /\ probe.fds[j].size = probe.fds[probe.result[1]].size
    /\ \E j \in 1 .. Len(probe.fds) :
          /\ probe.fds[j].flags = probe.flag_type
          /\ probe.fds[j].size < probe.fds[probe.result[1]].size

\* C5: the throughput a resample stores is (offset2 - offset1) / (t2 - t1)
\* when t2 > t1, and is unknown when the elapsed time is zero.
C5_ThroughputIsTheQuotient ==
    \A k \in 1 .. Len(filtered_procs) :
        Resampled(k) =>
            \A j \in 1 .. Len(filtered_procs[k].fd) :
                LET fd == filtered_procs[k].fd[j]
                    old == InitialFd(k, fd._id)
                    elapsed == fd.last_scan - old.last_scan
                IN  IF elapsed > 0
                    THEN fd.speed = Some((fd.pos - old.pos) \div elapsed)
                    ELSE fd.speed = None

\* C6: the report of a source of size 0 shows no percentage, and the report
\* of a source of size > 0 shows offset/size, which lies in [0, 1].
C6_ProgressWithinBounds ==
    \A n \in 1 .. Len(out) :
        IF out[n].size = 0
        THEN out[n].progress = None
        ELSE /\ out[n].progress # None
             /\ LET err == out[n].progress[1] * out[n].size - out[n].pos * 10000
                IN  2 * err <= out[n].size /\ -2 * err <= out[n].size
             /\ out[n].pos <= out[n].size

\* C7: a tracked descriptor carries a throughput iff its process has been
\* resampled, and a run asked neither to wait nor for a delay reports none.
C7_ThroughputIffResampled ==
    /\ \A k \in 1 .. Len(filtered_procs) :
          \A j \in 1 .. Len(filtered_procs[k].fd) :
              filtered_procs[k].fd[j].speed # None <=> Resampled(k)
    /\ (~cli.wait /\ cli.wait_delay = None) =>
          \A n \in 1 .. Len(out) : out[n].speed = None

\* A report shows the throughput of a resampled descriptor.
C7_Witness ==
    \E n \in 1 .. Len(out) :
        /\ out[n].speed # None
        /\ \E k \in 1 .. Len(filtered_procs) :
              /\ filtered_procs[k].pid = out[n].pid
              /\ Resampled(k)

\* C8: a successful resample changes only the offset, the throughput and
\* the sample timestamp of the descriptor.
C8_ResampleFrame ==
    (pc = "resample" /\ probe.result # None) =>
        LET old == probe.fd
            new == probe.result[1]
        IN  /\ new._id = old._id
            /\ new.fd_info = old.fd_info
            /\ new.name = old.name
            /\ new.size = old.size
            /\ new.flags = old.flags
            /\ DOMAIN new = DOMAIN old

\* A resample succeeded although the re-read reports another access mode and
\* the backing file has another size, and the offset moved.
C8_Witness ==
    /\ pc = "resample" /\ probe.result # None
    /\ FDFlagsFrom(probe.r.flags) # probe.fd.flags
    /\ probe.r.size # probe.fd.size
    /\ probe.result[1].pos # probe.fd.pos
    /\ probe.result[1].speed # None

IsPrefix(a, b) == Len(a) <= Len(b) /\ SubSeq(b, 1, Len(a)) = a

PidsOf(ps) == [k \in 1 .. Len(ps) |-> ps[k].pid]

\* The phases of a complete run over the selected processes.
ExpectedEvents ==
    LET pids == PidsOf(filtered_procs)
        Phase(name) == [k \in 1 .. Len(pids) |-> << name, pids[k] >>]
    IN  Phase("scan")
        \o (IF cli.wait \/ cli.wait_delay # None
            THEN << << "wait" >> >> \o Phase("update")
            ELSE << >>)
        \o Phase("print")

\* C9: the run is the initial scans of the selected processes in discovery
\* order, then the single wait and the resample of every process iff the
\* wait flag or a delay was given, then one report per process in the same
\* order.
C9_PhaseOrder ==
    /\ IsPrefix(events, ExpectedEvents)
    /\ pc = "done" => events = ExpectedEvents
    /\ \A k, l \in 1 .. Len(filtered_procs) :
          k < l => \E a, b \in 1 .. Len(procs) :
                      a < b /\ procs[a] = filtered_procs[k].pid
                            /\ procs[b] = filtered_procs[l].pid
    /\ IsPrefix(PidsOf(out), PidsOf(filtered_procs))
    /\ now # 0 => << "wait" >> \in Range(events)

\* A run that waited has resampled and reported two processes.
C9_Witness ==
    /\ pc = "done"
    /\ Len(filtered_procs) = 2
    /\ Len(out) = 2
    /\ Len(reread) = 2

\* C10: a resample whose re-read offset is smaller than the stored one
\* neither aborts the run nor derives the throughput from the difference
\* taken modulo 2^64.
C10_BackwardOffsetIsHarmless ==
    /\ panic # "FD::update:overflow"
    /\ \A k \in 1 .. Len(filtered_procs) :
          Resampled(k) =>
              \A j \in 1 .. Len(filtered_procs[k].fd) :
                  LET fd == filtered_procs[k].fd[j]
                      old == InitialFd(k, fd._id)
                      elapsed == fd.last_scan - old.last_scan
                  IN  (fd.pos < old.pos /\ elapsed > 0) =>
                          fd.speed # Some((Modulus + fd.pos - old.pos) \div elapsed)

====
